---- MODULE Spec2Model ----
(***************************************************************************)
(* Model of the juggling game component (src/components/JugglingGame.tsx)  *)
(* and of the coach service (src/services/geminiService.ts).               *)
(*                                                                         *)
(* Coordinates and velocities are fixed-point numbers: one unit is 0.00005 *)
(* of the normalized image, so 1.0 is 20000 units.  Times are in ms.       *)
(* One Frame action is one MediaPipe result: onResults (hand update) and   *)
(* then draw -> updateGame (spawn, resolver, physics), all synchronously.  *)
(***************************************************************************)
EXTENDS Integers, Sequences, FiniteSets, TLC

VARIABLES
    gameState,        \* gameStateRef.current
    score,            \* scoreRef.current
    targetBallCount,  \* React state set by the slider
    balls,            \* ballsRef.current, in registry (spawn) order
    hands,            \* handsRef.current
    lastSpawnTime,    \* lastSpawnTimeRef.current
    throwCooldowns,   \* throwCooldowns.current
    now,              \* Date.now() at the latest frame
    appGameState,     \* App's gameState, written by onGameStateChange
    appScore,         \* App's score, written by onScoreUpdate
    log,              \* what the latest frame did to each ball
    spawned,          \* whether the latest frame spawned a ball
    throws,           \* number of throws since startGame
    catchOrder,       \* indices of the held balls, in the order they were caught
    results,          \* the detections of the latest frame, in the tracker's order
    chatSession,      \* geminiService's chatSession
    coachReply,       \* how the latest sendCoachMessage promise settled
    scene             \* what the camera sees in this run and when its loop stops

vars == <<gameState, score, targetBallCount, balls, hands, lastSpawnTime,
          throwCooldowns, now, appGameState, appScore, log, spawned,
          throws, catchOrder, results, chatSession, coachReply, scene>>

----------------------------------------------------------------------------
\* Program constants (fixed point, see above)

GRAVITY == 3
BALL_RADIUS == 800
HAND_RADIUS == 2000
THROW_THRESHOLD == -1600
THROW_COOLDOWN == 400
MAX_STACK_HEIGHT == 4
SPAWN_INTERVAL == 500
CATCH_VY_LIMIT == -200
FLOOR_Y == 24000
SPAWN_Y == -2000
RESPAWN_Y == -4000
HOLD_OFFSET == 1000
THROW_POP == 100
SCORE_PER_THROW == 10
RIGHT_WALL == 20000
InitialTargetBallCount == 3
SliderMin == 1
SliderMax == 15
MAX_NUM_HANDS == 2

----------------------------------------------------------------------------
\* Bounds of the model

StartTime == 1000      \* Date.now() when the component is constructed
MaxIdleTime == 1200    \* no frame is delivered before startGame after this time
MaxTarget == 4         \* the slider is moved within 1..MaxTarget
StopOneHand == 2300    \* the camera loop stops: one hand in view
StopTwoHands == 2200   \* the camera loop stops: both hands in view
StopNoHand == 2600     \* the camera loop stops: no hand in view
StopWall == 1900       \* the camera loop stops: one hand reaching the side wall
StopFloor == 1900      \* the camera loop stops: one hand reaching below the image
StopCrowd == 1400      \* the camera loop stops: tracker reporting up to MaxHands hands
StopCoach == 1500      \* the camera loop stops: coach panel in use
MaxHands == 3          \* detections in one result when the tracker exceeds maxNumHands

Dts == {200, 300}                 \* ms between two results
HandXs == {10000}                 \* palm anchor x values
HandYs == {0, 1600, 4000}         \* palm anchor y values
SpawnXs == {10000}                \* values of 0.2 + Math.random() * 0.6
Jitters == {-50, 0}               \* values of (Math.random() - 0.5) * 0.005
WallXs == {10000, 19600}          \* palm anchor x values up to the right wall
WallYs == {0, 2000}
FloorYs == {0, 8400, 22000}       \* palm anchor y values down to below the image
SpawnXsWide == {4000, 10000, 15999}

\* the runs explored: which hands the tracker reports and where, whether the
\* player moves the slider, and when the camera loop is cancelled
BaseScene ==
    [labels |-> {}, xs |-> HandXs, ys |-> {}, spawnXs |-> SpawnXs, hands |-> MAX_NUM_HANDS,
     slider |-> FALSE, coach |-> FALSE, apiKey |-> "", stop |-> StopNoHand]

Scenes ==
    { [BaseScene EXCEPT !.labels = {"Left"}, !.ys = HandYs, !.stop = StopOneHand],
      [BaseScene EXCEPT !.labels = {"Left", "Right"}, !.ys = {0, 4000},
                        !.stop = StopTwoHands],
      [BaseScene EXCEPT !.slider = TRUE],
      [BaseScene EXCEPT !.labels = {"Left"}, !.xs = WallXs, !.ys = WallYs,
                        !.stop = StopWall],
      [BaseScene EXCEPT !.labels = {"Left"}, !.ys = FloorYs, !.spawnXs = SpawnXsWide,
                        !.stop = StopFloor],
      [BaseScene EXCEPT !.labels = {"Left", "Right"}, !.ys = {0, 4000},
                        !.hands = MaxHands, !.stop = StopCrowd],
      [BaseScene EXCEPT !.coach = TRUE, !.stop = StopCoach],
      [BaseScene EXCEPT !.coach = TRUE, !.apiKey = "key", !.stop = StopCoach] }

HandNames == <<"left", "right">>
Sides == {"left", "right"}

----------------------------------------------------------------------------
\* Helpers

Min(a, b) == IF a < b THEN a ELSE b
Max(a, b) == IF a > b THEN a ELSE b

\* v * n / d in fixed point, rounded toward zero
Scale(v, n, d) ==
    LET p == v * n
    IN  IF (p >= 0) = (d > 0)
        THEN (IF p >= 0 THEN p ELSE -p) \div (IF d > 0 THEN d ELSE -d)
        ELSE -((IF p >= 0 THEN p ELSE -p) \div (IF d > 0 THEN d ELSE -d))

\* log entry of a ball: how its hand released it in the resolver (rel, from,
\* velocity right after the release), whether it was free in the physics step,
\* the ball at the catch checks (chk) and after them (end), and the floor check
NoBall == [id |-> 0, x |-> 0, y |-> 0, vx |-> 0, vy |-> 0, radius |-> 0, heldBy |-> "none"]
NoLog == [rel |-> "none", from |-> "none", rvx |-> 0, rvy |-> 0,
          free |-> FALSE, chk |-> NoBall, end |-> NoBall, respawned |-> FALSE]

----------------------------------------------------------------------------
\* Hand State Tracker: onResults

Detection(sc) == [label : sc.labels, x : sc.xs, y : sc.ys]

\* multiHandLandmarks / multiHandedness of one result.  With maxNumHands: 2
\* honoured: no hand, one hand, or a left and a right hand.  Otherwise any
\* sequence of up to sc.hands detections.
Results(sc) ==
    IF sc.hands <= MAX_NUM_HANDS
    THEN {<<>>} \cup {<<d>> : d \in Detection(sc)}
                \cup {<<d, e>> : d \in {c \in Detection(sc) : c.label = "Left"},
                                 e \in {c \in Detection(sc) : c.label = "Right"}}
    ELSE UNION {[1..n -> Detection(sc)] : n \in 0..sc.hands}

RECURSIVE onResultsLoop(_, _, _, _)
onResultsLoop(prev, dets, i, next) ==
    IF i > Len(dets) THEN next
    ELSE LET side == IF dets[i].label = "Left" THEN "left" ELSE "right"
             prevHand == prev[side]
             pos == [x |-> dets[i].x, y |-> dets[i].y,
                     vx |-> dets[i].x - prevHand.x,
                     vy |-> dets[i].y - prevHand.y,
                     isPresent |-> TRUE]
         IN  onResultsLoop(prev, dets, i + 1, [next EXCEPT ![side] = pos])

onResultsStaleAtRest(prev, dets) ==
    onResultsLoop(prev, dets, 1,
                  [s \in Sides |-> [prev[s] EXCEPT !.isPresent = FALSE, !.vx = 0, !.vy = 0]])

onResults(prev, dets) ==
    onResultsLoop(prev, dets, 1,
                  [s \in Sides |-> [prev[s] EXCEPT !.isPresent = FALSE]])

----------------------------------------------------------------------------
\* Ball Registry: spawnBall, respawnBall

spawnBall(B, t, rx, rv) ==
    Append(B, [id |-> t, x |-> rx, y |-> SPAWN_Y, vx |-> rv, vy |-> 0,
               radius |-> BALL_RADIUS, heldBy |-> "none"])

respawnBallNewId(b, rx, rv) ==
    [b EXCEPT !.id = 0, !.x = rx, !.y = RESPAWN_Y, !.vx = rv, !.vy = 0, !.heldBy = "none"]

respawnBall(b, rx, rv) ==
    [b EXCEPT !.x = rx, !.y = RESPAWN_Y, !.vx = rv, !.vy = 0, !.heldBy = "none"]

\* the target ball count that updateGame reads
closureTargetBallCount == InitialTargetBallCount

\* mutant: the gate opens at exactly 500 ms
spawnDueAtInterval(B, t, last) ==
    Len(B) < closureTargetBallCount /\ t - last >= SPAWN_INTERVAL

spawnDue(B, t, last) ==
    Len(B) < closureTargetBallCount /\ t - last > SPAWN_INTERVAL

----------------------------------------------------------------------------
\* Catch/Throw Resolver: the forEach over ['left', 'right'] in updateGame

RECURSIVE heldBalls(_, _, _)
heldBalls(B, hName, i) ==
    IF i > Len(B) THEN <<>>
    ELSE (IF B[i].heldBy = hName THEN <<i>> ELSE <<>>) \o heldBalls(B, hName, i + 1)

\* mutant: a hand moving up at exactly the threshold throws
throwIntentAtThreshold(hand, t, cooldown) ==
    hand.vy <= THROW_THRESHOLD /\ t - cooldown > THROW_COOLDOWN

throwIntent(hand, t, cooldown) ==
    hand.vy < THROW_THRESHOLD /\ t - cooldown > THROW_COOLDOWN

\* mutant: the bottom of the stack is thrown
ballToThrowBottom(held) == held[1]

ballToThrow(held) == held[Len(held)]

willThrow(B, hName, hand, t, cooldown) ==
    /\ hand.isPresent
    /\ heldBalls(B, hName, 1) # <<>>
    /\ throwIntent(hand, t, cooldown)

throwBallNoLift(b, hand, jitter) ==
    [b EXCEPT !.heldBy = "none",
              !.vy = -THROW_POP,
              !.vx = Scale(hand.vx, 1, 4) + jitter]

throwBall(b, hand, jitter) ==
    [b EXCEPT !.heldBy = "none",
              !.vy = Scale(hand.vy, 1, 4) - THROW_POP,
              !.vx = Scale(hand.vx, 1, 4) + jitter]

\* mutant: the balls of the other hand are counted too
stackIndexAnyHand(B, hName, i) ==
    Min(Cardinality({j \in 1..(i - 1) : B[j].heldBy # "none"}), MAX_STACK_HEIGHT)

stackIndex(B, hName, i) ==
    Min(Cardinality({j \in 1..(i - 1) : B[j].heldBy = hName}), MAX_STACK_HEIGHT)

\* mutant: held balls are given velocity (0,0)
positionHeldAtRest(B, hName, hand) ==
    [i \in 1..Len(B) |->
        IF B[i].heldBy = hName
        THEN [B[i] EXCEPT
                !.x = hand.x,
                !.y = hand.y - HOLD_OFFSET
                      - stackIndex(B, hName, i) * Scale(B[i].radius, 6, 5),
                !.vx = 0,
                !.vy = 0]
        ELSE B[i]]

positionHeld(B, hName, hand) ==
    [i \in 1..Len(B) |->
        IF B[i].heldBy = hName
        THEN [B[i] EXCEPT
                !.x = hand.x,
                !.y = hand.y - HOLD_OFFSET
                      - stackIndex(B, hName, i) * Scale(B[i].radius, 6, 5),
                !.vx = hand.vx,
                !.vy = hand.vy]
        ELSE B[i]]

\* mutant: dropped balls are stopped
dropAllAtRest(B, hName) ==
    [i \in 1..Len(B) |->
        IF B[i].heldBy = hName
        THEN [B[i] EXCEPT !.heldBy = "none", !.vx = 0, !.vy = 0]
        ELSE B[i]]

dropAll(B, hName) ==
    [i \in 1..Len(B) |->
        IF B[i].heldBy = hName THEN [B[i] EXCEPT !.heldBy = "none"] ELSE B[i]]

\* mutant: the score is set instead of incremented
scoreSetOnThrow(sc) == SCORE_PER_THROW

scoreAfterThrow(sc) == sc + SCORE_PER_THROW

\* st = [balls, cd, score, L]; one iteration of the forEach for hName
cooldownShared(cd, hName, t) == [s \in Sides |-> t]

\* throwCooldowns.current[hName] = now
cooldownAfterThrow(cd, hName, t) == [cd EXCEPT ![hName] = t]

resolveHand(st, hName, hand, t, jitter) ==
    LET B == st.balls
        held == heldBalls(B, hName, 1)
    IN  IF hand.isPresent /\ Len(held) > 0
        THEN IF throwIntent(hand, t, st.cd[hName])
             THEN LET k == ballToThrow(held)
                      thrown == throwBall(B[k], hand, jitter)
                      B1 == [B EXCEPT ![k] = thrown]
                  IN  [balls |-> positionHeld(B1, hName, hand),
                       cd |-> cooldownAfterThrow(st.cd, hName, t),
                       score |-> scoreAfterThrow(st.score),
                       L |-> [st.L EXCEPT ![k].rel = "throw",
                                          ![k].from = hName,
                                          ![k].rvx = thrown.vx,
                                          ![k].rvy = thrown.vy]]
             ELSE [st EXCEPT !.balls = positionHeld(B, hName, hand)]
        ELSE IF ~hand.isPresent /\ Len(held) > 0
             THEN LET D == dropAll(B, hName)
                  IN  [st EXCEPT
                         !.balls = D,
                         !.L = [i \in 1..Len(B) |->
                                  IF B[i].heldBy = hName
                                  THEN [st.L[i] EXCEPT !.rel = "drop",
                                                       !.from = hName,
                                                       !.rvx = D[i].vx,
                                                       !.rvy = D[i].vy]
                                  ELSE st.L[i]]]
             ELSE st

----------------------------------------------------------------------------
\* Physics Integrator: the forEach over the balls in updateGame

integrate(b) ==
    [b EXCEPT !.vy = b.vy + GRAVITY,
              !.y = b.y + (b.vy + GRAVITY),
              !.x = b.x + b.vx]

wallBounceNoClamp(b) ==
    IF b.x < b.radius \/ b.x > RIGHT_WALL - b.radius
    THEN [b EXCEPT !.vx = Scale(b.vx, -4, 5)]
    ELSE b

wallBounce(b) ==
    IF b.x < b.radius \/ b.x > RIGHT_WALL - b.radius
    THEN [b EXCEPT !.vx = Scale(b.vx, -4, 5),
                   !.x = Max(b.radius, Min(RIGHT_WALL - b.radius, b.x))]
    ELSE b

Abs(a) == IF a < 0 THEN -a ELSE a

\* Math.sqrt(dx*dx + dy*dy) < radius + HAND_RADIUS / 2 with dy scaled by 0.75,
\* squared and multiplied by 16; the two guards only keep the products small
inCatchRadius(b, hand) ==
    LET dx == b.x - hand.x
        dy == b.y - hand.y
        r == b.radius + HAND_RADIUS \div 2
    IN  /\ Abs(dx) < r
        /\ 3 * Abs(dy) < 4 * r
        /\ 16 * dx * dx + 9 * dy * dy < 16 * r * r

\* mutant: rising balls are caught too
checkHandCatchAnyVy(b, hand, handName) ==
    IF ~hand.isPresent \/ b.heldBy # "none" THEN b
    ELSE IF inCatchRadius(b, hand)
         THEN [b EXCEPT !.heldBy = handName, !.vx = 0, !.vy = 0]
         ELSE b

checkHandCatchStaleHand(b, hand, handName) ==
    IF b.heldBy # "none" THEN b
    ELSE IF inCatchRadius(b, hand) /\ b.vy > CATCH_VY_LIMIT
         THEN [b EXCEPT !.heldBy = handName, !.vx = 0, !.vy = 0]
         ELSE b

checkHandCatch(b, hand, handName) ==
    IF ~hand.isPresent \/ b.heldBy # "none" THEN b
    ELSE IF inCatchRadius(b, hand) /\ b.vy > CATCH_VY_LIMIT
         THEN [b EXCEPT !.heldBy = handName, !.vx = 0, !.vy = 0]
         ELSE b

\* mutant: the right hand is checked first
catchChecksRightFirst(b, H) ==
    checkHandCatch(checkHandCatch(b, H["right"], "right"), H["left"], "left")

catchChecks(b, H) ==
    checkHandCatch(checkHandCatch(b, H["left"], "left"), H["right"], "right")

needsRespawnBelowEdge(b) == b.y - b.radius > FLOOR_Y

needsRespawn(b) == b.y > FLOOR_Y

\* physics of one ball that is free after the resolver: [chk, end, respawn]
physicsStep(b, H) ==
    LET chk == wallBounce(integrate(b))
        end == catchChecks(chk, H)
    IN  [chk |-> chk, end |-> end, respawn |-> needsRespawn(end)]

\* each \E over a one-element set names an intermediate value of the frame
updateGame(t, H) ==
    \E due \in {spawnDue(balls, t, lastSpawnTime)} :
    \E rx \in (IF due THEN scene.spawnXs ELSE {0}), rv \in (IF due THEN Jitters ELSE {0}) :
    \E B0 \in {IF due THEN spawnBall(balls, t, rx, rv) ELSE balls} :
    \E jl \in (IF willThrow(B0, "left", H["left"], t, throwCooldowns["left"])
               THEN Jitters ELSE {0}) :
    \E st1 \in {resolveHand([balls |-> B0, cd |-> throwCooldowns, score |-> score,
                             L |-> [i \in 1..Len(B0) |-> NoLog]],
                            HandNames[1], H[HandNames[1]], t, jl)} :
    \E jr \in (IF willThrow(st1.balls, "right", H["right"], t, st1.cd["right"])
               THEN Jitters ELSE {0}) :
    \E st2 \in {resolveHand(st1, HandNames[2], H[HandNames[2]], t, jr)} :
    \E P \in {[i \in 1..Len(B0) |->
                 IF st2.balls[i].heldBy = "none"
                 THEN physicsStep(st2.balls[i], H)
                 ELSE [chk |-> st2.balls[i], end |-> st2.balls[i], respawn |-> FALSE]]} :
    \E R \in {{i \in 1..Len(B0) : P[i].respawn}} :
    \E rr \in [R -> scene.spawnXs \X Jitters] :
    \E B3 \in {[i \in 1..Len(B0) |->
                  IF i \in R THEN respawnBall(P[i].end, rr[i][1], rr[i][2])
                  ELSE P[i].end]} :
    \E nThrows \in {Cardinality({i \in 1..Len(B0) : st2.L[i].rel = "throw"})} :
        /\ balls' = B3
        /\ lastSpawnTime' = (IF due THEN t ELSE lastSpawnTime)
        /\ spawned' = due
        /\ throwCooldowns' = st2.cd
        /\ score' = st2.score
        /\ appScore' = (IF nThrows > 0 THEN st2.score ELSE appScore)
        /\ throws' = throws + nThrows
        /\ log' = [i \in 1..Len(B0) |->
                     IF st2.balls[i].heldBy = "none"
                     THEN [st2.L[i] EXCEPT
                             !.free = TRUE,
                             !.chk = P[i].chk,
                             !.end = P[i].end,
                             !.respawned = P[i].respawn]
                     ELSE st2.L[i]]
        /\ catchOrder' =
             SelectSeq(SelectSeq(catchOrder, LAMBDA i : st2.balls[i].heldBy # "none")
                       \o SelectSeq([i \in 1..Len(B0) |-> i],
                                    LAMBDA i : st2.balls[i].heldBy = "none"
                                               /\ P[i].end.heldBy # "none"),
                       LAMBDA i : B3[i].heldBy # "none")

simulatesAlways(gs) == TRUE

\* updateGame returns at once unless the session is PLAYING
simulates(gs) == gs = "PLAYING"

\* one result delivered by the camera loop: onResults, then draw -> updateGame
Frame ==
    \E dt \in Dts, dets \in Results(scene) :
        /\ now + dt <= scene.stop
        /\ gameState = "PLAYING" \/ now < MaxIdleTime
        /\ now' = now + dt
        /\ results' = dets
        /\ UNCHANGED <<gameState, targetBallCount, appGameState, chatSession,
                       coachReply, scene>>
        /\ \E H \in {onResults(hands, dets)} :
            /\ hands' = H
            /\ IF ~simulates(gameState)
               THEN /\ log' = [i \in 1..Len(balls) |-> NoLog]
                    /\ spawned' = FALSE
                    /\ UNCHANGED <<score, balls, lastSpawnTime, throwCooldowns,
                                   appScore, throws, catchOrder>>
               ELSE updateGame(now + dt, H)

----------------------------------------------------------------------------
\* Game Session State Machine

offScreen(b) == b.y > RIGHT_WALL \/ b.y < RESPAWN_Y

\* the Start / Resume button, shown while gameState is not PLAYING
startGameSilent ==
    /\ gameState # "PLAYING"
    /\ score' = 0
    /\ throws' = 0
    /\ gameState' = "PLAYING"
    /\ LET R == {i \in 1..Len(balls) : offScreen(balls[i])}
       IN  \E rr \in [R -> scene.spawnXs \X Jitters] :
           /\ balls' = [i \in 1..Len(balls) |->
                          IF i \in R THEN respawnBall(balls[i], rr[i][1], rr[i][2])
                          ELSE balls[i]]
           /\ catchOrder' = SelectSeq(catchOrder, LAMBDA i : i \notin R)
    /\ UNCHANGED <<targetBallCount, hands, lastSpawnTime, throwCooldowns, now,
                   appGameState, appScore, log, spawned, results, chatSession,
                   coachReply, scene>>

\* a Start button that stays on screen and pauses a running session
startGameOrPause ==
    /\ gameState' = (IF gameState = "PLAYING" THEN "IDLE" ELSE "PLAYING")
    /\ appGameState' = gameState'
    /\ score' = (IF gameState = "PLAYING" THEN score ELSE 0)
    /\ throws' = (IF gameState = "PLAYING" THEN throws ELSE 0)
    /\ LET R == {i \in 1..Len(balls) : gameState # "PLAYING" /\ offScreen(balls[i])}
       IN  \E rr \in [R -> scene.spawnXs \X Jitters] :
           /\ balls' = [i \in 1..Len(balls) |->
                          IF i \in R THEN respawnBall(balls[i], rr[i][1], rr[i][2])
                          ELSE balls[i]]
           /\ catchOrder' = SelectSeq(catchOrder, LAMBDA i : i \notin R)
    /\ UNCHANGED <<targetBallCount, hands, lastSpawnTime, throwCooldowns, now,
                   appScore, log, spawned, results, chatSession, coachReply, scene>>

startGame ==
    /\ gameState # "PLAYING"
    /\ score' = 0
    /\ throws' = 0
    /\ gameState' = "PLAYING"
    /\ appGameState' = "PLAYING"
    /\ LET R == {i \in 1..Len(balls) : offScreen(balls[i])}
       IN  \E rr \in [R -> scene.spawnXs \X Jitters] :
           /\ balls' = [i \in 1..Len(balls) |->
                          IF i \in R THEN respawnBall(balls[i], rr[i][1], rr[i][2])
                          ELSE balls[i]]
           /\ catchOrder' = SelectSeq(catchOrder, LAMBDA i : i \notin R)
    /\ UNCHANGED <<targetBallCount, hands, lastSpawnTime, throwCooldowns, now,
                   appScore, log, spawned, results, chatSession, coachReply, scene>>

\* the slider of the setup overlay, shown while gameState is not PLAYING
setTargetBallCount ==
    \E n \in SliderMin..Min(SliderMax, MaxTarget) :
        /\ gameState # "PLAYING"
        /\ scene.slider
        /\ n # targetBallCount
        /\ targetBallCount' = n
        /\ UNCHANGED <<gameState, score, balls, hands, lastSpawnTime, throwCooldowns,
                       now, appGameState, appScore, log, spawned, throws, catchOrder,
                       results, chatSession, coachReply, scene>>

----------------------------------------------------------------------------
\* Coach service: geminiService.ts

MISSING_KEY_REPLY == "API Key missing. Cannot connect to Coach."
EMPTY_TEXT_REPLY == "Keep it up!"
FAILED_REPLY == "Oops, I dropped my train of thought. Try again!"

gameVars == <<gameState, score, targetBallCount, balls, hands, lastSpawnTime,
              throwCooldowns, now, appGameState, appScore, log, spawned,
              throws, catchOrder, results, scene>>

\* outcomes of the SDK calls: ai.chats.create returns a chat or throws,
\* chat.sendMessage resolves with a text, with an empty text, or rejects
CreateOutcomes == {"chat", "throws"}
SendOutcomes == {"text", "empty", "rejects"}

\* the Coach panel's mount effect; a throw of ai.chats.create leaves
\* chatSession as it was
initializeCoachChat ==
    \E create \in CreateOutcomes :
        /\ scene.coach
        /\ chatSession' = (IF create = "chat" THEN "chat" ELSE chatSession)
        /\ UNCHANGED <<gameVars, coachReply>>

\* the promise returned by one sendCoachMessage call: the key check and the
\* lazy initializeCoachChat run before the try block, sendMessage inside it
sendCoachMessage ==
    \E create \in CreateOutcomes, send \in SendOutcomes :
        /\ scene.coach
        /\ IF scene.apiKey = ""
           THEN /\ coachReply' = MISSING_KEY_REPLY
                /\ UNCHANGED chatSession
           ELSE IF chatSession = "null" /\ create = "throws"
           THEN /\ coachReply' = "REJECTED"
                /\ UNCHANGED chatSession
           ELSE /\ chatSession' = "chat"
                /\ coachReply' = (CASE send = "text" -> "TEXT"
                                    [] send = "empty" -> EMPTY_TEXT_REPLY
                                    [] OTHER -> FAILED_REPLY)
        /\ UNCHANGED gameVars

Init ==
    /\ gameState = "IDLE"
    /\ score = 0
    /\ targetBallCount = InitialTargetBallCount
    /\ balls = <<>>
    /\ hands = [s \in Sides |-> [x |-> 0, y |-> 0, vx |-> 0, vy |-> 0, isPresent |-> FALSE]]
    /\ lastSpawnTime = 0
    /\ throwCooldowns = [s \in Sides |-> 0]
    /\ now = StartTime
    /\ appGameState = "IDLE"
    /\ appScore = 0
    /\ log = <<>>
    /\ spawned = FALSE
    /\ throws = 0
    /\ catchOrder = <<>>
    /\ results = <<>>
    /\ chatSession = "null"
    /\ coachReply = "none"
    /\ scene \in Scenes

Next == Frame \/ startGame \/ setTargetBallCount \/ initializeCoachChat \/ sendCoachMessage

Spec == Init /\ [][Next]_vars

----------------------------------------------------------------------------
\* Vocabulary of the properties

IsFrame == now' # now
PlayingFrame == gameState = "PLAYING" /\ now' # now
heldSet(B, h) == {i \in 1..Len(B) : B[i].heldBy = h}
thrownBy(L, h) == {i \in 1..Len(L) : L[i].rel = "throw" /\ L[i].from = h}
droppedBy(L, h) == {i \in 1..Len(L) : L[i].rel = "drop" /\ L[i].from = h}
caughtNow(L, i) == L[i].free /\ L[i].end.heldBy # "none"

----------------------------------------------------------------------------
\* C1: in a Playing frame a hand throws if and only if it is present, holds
\* at least one ball, has vy < -0.08 and more than 400 ms have passed since
\* its last throw; a throw releases exactly one of the balls the hand held.
C1_Qualifies(h) ==
    /\ hands'[h].isPresent
    /\ heldSet(balls, h) # {}
    /\ hands'[h].vy < -1600
    /\ now' - throwCooldowns[h] > 400

C1_ThrowIffQualified ==
    [][PlayingFrame =>
        \A h \in Sides :
            /\ thrownBy(log', h) \subseteq heldSet(balls, h)
            /\ IF C1_Qualifies(h)
               THEN /\ Cardinality(thrownBy(log', h)) = 1
                    /\ Cardinality({i \in heldSet(balls, h) : balls'[i].heldBy # h}) = 1
                    /\ \A i \in thrownBy(log', h) : balls'[i].heldBy # h
               ELSE thrownBy(log', h) = {}]_vars

C1_Witness ==
    \E i \in 1..Len(log) : log[i].rel = "throw" /\ balls[i].heldBy = "none"

----------------------------------------------------------------------------
\* C2 (as claimed): the ball a hand throws is the most recently caught of
\* the balls it holds.
C2_MostRecentlyCaught(h) ==
    LET mine == SelectSeq(catchOrder, LAMBDA j : balls[j].heldBy = h)
    IN  mine[Len(mine)]

C2_ThrowsMostRecentlyCaught ==
    [][PlayingFrame =>
        \A h \in Sides : \A i \in thrownBy(log', h) : i = C2_MostRecentlyCaught(h)]_vars

\* C2 (amended): the ball a hand throws is the last one, in registry order,
\* of the balls it holds, whatever the order in which they were caught.
C2_ThrowsLastInRegistry ==
    [][PlayingFrame =>
        \A h \in Sides : \A i \in thrownBy(log', h) :
            /\ i \in heldSet(balls, h)
            /\ \A j \in heldSet(balls, h) : j <= i]_vars

C2_Witness ==
    \E h \in Sides : \E i \in thrownBy(log, h) : \E j \in 1..Len(balls) :
        j < i /\ balls[j].heldBy = h

----------------------------------------------------------------------------
\* C3 (as claimed): the number of balls in the registry never exceeds the
\* target ball count the player configured before starting.
C3_CountWithinConfiguredTarget ==
    gameState = "PLAYING" => Len(balls) <= targetBallCount

----------------------------------------------------------------------------
\* position of slot k of hand h: x = hand.x, y = hand.y - 0.05 - min(k, 4) * 1.2 * radius
AtSlot(b, h, k) ==
    /\ b.x = hands[h].x
    /\ b.y = hands[h].y - 1000 - (IF k < 4 THEN k ELSE 4) * ((12 * b.radius) \div 10)

\* C4 (as claimed): at the end of every frame each held ball sits at the slot
\* of its index among the balls of its hand, the frame of its catch included.
C4_HeldAtSlotEveryFrame ==
    \A h \in Sides : \A i \in heldSet(balls, h) :
        AtSlot(balls[i], h, Cardinality({j \in heldSet(balls, h) : j < i}))

\* C4 (amended): at the end of every frame each ball that its hand already
\* held when the resolver ran sits at the slot of its index among those
\* balls; a ball caught in the frame stays where the physics step left it.
C4_HeldAtSlotUnlessJustCaught ==
    \A h \in Sides : \A i \in heldSet(balls, h) :
        IF caughtNow(log, i)
        THEN balls[i].x = log[i].chk.x /\ balls[i].y = log[i].chk.y
        ELSE AtSlot(balls[i], h,
                    Cardinality({j \in heldSet(balls, h) : j < i /\ ~caughtNow(log, j)}))

C4_Witness ==
    \E h \in Sides : \E i, j \in heldSet(balls, h) :
        /\ j < i
        /\ ~caughtNow(log, i)
        /\ ~caughtNow(log, j)
        /\ balls[i].y = balls[j].y - 960

----------------------------------------------------------------------------
\* C5 (as claimed): every held ball has velocity (0,0).
C5_HeldVelocityZero ==
    \A i \in 1..Len(balls) :
        balls[i].heldBy # "none" => balls[i].vx = 0 /\ balls[i].vy = 0

\* C5 (amended): at the end of a frame a held ball has velocity (0,0) if it
\* was caught in that frame, and the velocity of its hand otherwise.
C5_HeldVelocityIsHandVelocity ==
    \A h \in Sides : \A i \in heldSet(balls, h) :
        IF caughtNow(log, i)
        THEN balls[i].vx = 0 /\ balls[i].vy = 0
        ELSE balls[i].vx = hands[h].vx /\ balls[i].vy = hands[h].vy

C5_Witness ==
    \E h \in Sides : \E i \in heldSet(balls, h) :
        ~caughtNow(log, i) /\ hands[h].vy # 0 /\ balls[i].vy = hands[h].vy

----------------------------------------------------------------------------
\* C6 (as claimed): when a hand is absent in a Playing frame every ball it
\* held is dropped with its velocity unchanged, and that velocity is (0,0).
C6_DropKeepsZeroVelocity ==
    [][PlayingFrame =>
        \A h \in Sides : ~hands'[h].isPresent =>
            \A i \in heldSet(balls, h) :
                /\ i \in droppedBy(log', h)
                /\ log'[i].free
                /\ balls'[i].heldBy # h
                /\ log'[i].rvx = balls[i].vx /\ log'[i].rvy = balls[i].vy
                /\ log'[i].rvx = 0 /\ log'[i].rvy = 0]_vars

\* C6 (amended): when a hand is absent in a Playing frame every ball it held
\* is dropped with its velocity unchanged from the end of the previous
\* frame: (0,0) if it was caught in that frame, the hand's velocity otherwise.
C6_DropKeepsVelocity ==
    [][PlayingFrame =>
        \A h \in Sides : ~hands'[h].isPresent =>
            /\ droppedBy(log', h) = heldSet(balls, h)
            /\ \A i \in heldSet(balls, h) :
                /\ log'[i].free
                /\ balls'[i].heldBy # h
                /\ log'[i].rvx = balls[i].vx /\ log'[i].rvy = balls[i].vy
                /\ IF caughtNow(log, i)
                   THEN log'[i].rvx = 0 /\ log'[i].rvy = 0
                   ELSE log'[i].rvx = hands[h].vx /\ log'[i].rvy = hands[h].vy]_vars

C6_Witness ==
    \E h \in Sides :
        /\ ~hands[h].isPresent
        /\ \E i \in droppedBy(log, h) : log[i].rvy # 0 /\ log[i].rvy = hands[h].vy

----------------------------------------------------------------------------
\* C7: the score changes only by +10 for each throw of a Playing frame and
\* by the reset to 0 of the Idle -> Playing transition, so it never decreases
\* during a session and equals 10 times the throws since the session started.
C7_ScoreCountsThrows ==
    [][/\ score' = 10 * throws'
       /\ IF gameState' # gameState
          THEN score' = 0 /\ gameState = "IDLE" /\ gameState' = "PLAYING"
          ELSE /\ score' >= score
               /\ score' = score + 10 * Cardinality({i \in 1..Len(log') : log'[i].rel = "throw"})
                  \/ (~PlayingFrame /\ score' = score)]_vars

C7_Witness ==
    gameState = "PLAYING" /\ score >= 20 /\ \E i \in 1..Len(log) : log[i].rel = "throw"

----------------------------------------------------------------------------
\* C8 (as claimed): a frame spawns a ball only while Playing, below the
\* target count and past the 500 ms gate, at most one per frame, and it does
\* spawn when the count is below target and at least 500 ms have elapsed.
C8_SpawnsAtLeast500 ==
    [][IsFrame =>
        /\ spawned' => /\ gameState = "PLAYING"
                       /\ Len(balls) < closureTargetBallCount
                       /\ now' - lastSpawnTime >= 500
        /\ Len(balls') = Len(balls) + (IF spawned' THEN 1 ELSE 0)
        /\ (/\ gameState = "PLAYING"
            /\ Len(balls) < closureTargetBallCount
            /\ now' - lastSpawnTime >= 500) => spawned']_vars

\* C8 (amended): as claimed, but the gate is strict: a frame spawns exactly
\* when more than 500 ms have elapsed since the last spawn.
C8_SpawnsAfterMoreThan500 ==
    [][/\ IsFrame =>
            /\ spawned' <=> /\ gameState = "PLAYING"
                            /\ Len(balls) < closureTargetBallCount
                            /\ now' - lastSpawnTime > 500
            /\ Len(balls') = Len(balls) + (IF spawned' THEN 1 ELSE 0)
            /\ spawned' => lastSpawnTime' = now' /\ now' - lastSpawnTime >= 500
            /\ ~spawned' => lastSpawnTime' = lastSpawnTime
       /\ ~IsFrame => Len(balls') = Len(balls) /\ lastSpawnTime' = lastSpawnTime]_vars

C8_Witness ==
    spawned /\ Len(balls) >= 2 /\ lastSpawnTime = now

----------------------------------------------------------------------------
\* the catch test of a ball record c against hand h, from the frame's log
InReach(c, h) ==
    LET dx == c.x - hands[h].x
        dy == c.y - hands[h].y
    IN  /\ -1800 < dx /\ dx < 1800
        /\ -2400 < dy /\ dy < 2400
        /\ 16 * (dx * dx) + 9 * (dy * dy) < 16 * (1800 * 1800)

Catches(c, h) == hands[h].isPresent /\ InReach(c, h) /\ c.vy > -200

----------------------------------------------------------------------------
----------------------------------------------------------------------------
\* C11: at the end of every Playing frame every free ball has x within
\* [radius, 1 - radius]; a ball whose x leaves that interval in the integration
\* of a frame (also after a drop or throw from a hand outside it) has its vx
\* multiplied by -0.8 and its x clamped to the nearer bound in that frame, and
\* any other ball keeps the integrated x and its vx.
C11_BouncedOffWall(i) ==
    LET c == log'[i].chk
        vx0 == IF log'[i].rel # "none" THEN log'[i].rvx ELSE balls[i].vx
        xi == balls[i].x + vx0
    IN  IF xi < c.radius
        THEN c.x = c.radius /\ 5 * c.vx + 4 * vx0 \in -4..4
        ELSE IF xi > RIGHT_WALL - c.radius
        THEN c.x = RIGHT_WALL - c.radius /\ 5 * c.vx + 4 * vx0 \in -4..4
        ELSE c.x = xi /\ c.vx = vx0

C11_FreeBallsStayBetweenWalls ==
    [][PlayingFrame =>
         /\ \A i \in 1..Len(balls') :
               balls'[i].heldBy = "none" =>
                   /\ balls'[i].x >= balls'[i].radius
                   /\ balls'[i].x <= RIGHT_WALL - balls'[i].radius
         /\ \A i \in 1..Len(balls) : log'[i].free => C11_BouncedOffWall(i)]_vars

C11_Witness ==
    /\ gameState = "PLAYING"
    /\ \E i \in 1..Len(log) :
          /\ log[i].free /\ log[i].rel = "drop"
          /\ log[i].rvx > 0
          /\ log[i].chk.x = RIGHT_WALL - log[i].chk.radius
          /\ log[i].chk.vx < 0
          /\ balls[i].heldBy = "none"

C11_WitnessThrow ==
    /\ gameState = "PLAYING"
    /\ \E i \in 1..Len(log) :
          /\ log[i].free /\ log[i].rel = "throw"
          /\ log[i].chk.x = RIGHT_WALL - log[i].chk.radius
          /\ log[i].chk.vx > 0

----------------------------------------------------------------------------
\* C12: a free ball whose y exceeds 1.2 after the integration of a Playing
\* frame is respawned in that frame, i.e. before the next one: it is the same
\* ball with y = -0.2, x in [0.2, 0.8], vy = 0 and heldBy = none; so at the end
\* of every Playing frame no free ball has y > 1.2.
C12_RespawnedBelowFloor ==
    gameState = "PLAYING" =>
        /\ \A i \in 1..Len(balls) : balls[i].heldBy = "none" => balls[i].y <= FLOOR_Y
        /\ \A i \in 1..Len(log) :
              (log[i].free /\ log[i].chk.y > FLOOR_Y) =>
                  /\ balls[i].y = RESPAWN_Y /\ balls[i].y < 0
                  /\ balls[i].x >= 4000 /\ balls[i].x <= 16000
                  /\ balls[i].vy = 0
                  /\ balls[i].heldBy = "none"
                  /\ balls[i].id = log[i].chk.id

C12_Witness ==
    /\ gameState = "PLAYING"
    /\ \E i \in 1..Len(log) :
          /\ log[i].free /\ log[i].chk.y > FLOOR_Y
          /\ log[i].end.heldBy = "none"
          /\ balls[i].y = RESPAWN_Y /\ balls[i].x = 15999 /\ balls[i].vy = 0

----------------------------------------------------------------------------
\* C13: balls are never removed from the registry: over frames, respawns,
\* throws, drops and startGame the set of ball ids only grows (every ball keeps
\* its place and id), and it grows by exactly one id per spawn event.
ids(B) == {B[i].id : i \in 1..Len(B)}

C13_RegistryOnlyGrows ==
    [][ /\ ids(balls) \subseteq ids(balls')
        /\ Len(balls') >= Len(balls)
        /\ \A i \in 1..Len(balls) : balls'[i].id = balls[i].id
        /\ Cardinality(ids(balls')) = Len(balls')
        /\ Cardinality(ids(balls')) =
             Cardinality(ids(balls)) + (IF PlayingFrame /\ spawned' THEN 1 ELSE 0) ]_vars

C13_Witness ==
    /\ Len(balls) = 2
    /\ Cardinality(ids(balls)) = 2
    /\ spawned
    /\ \E i \in 1..Len(log) : log[i].respawned /\ balls[i].id = log[i].chk.id

----------------------------------------------------------------------------
\* C14: in a frame whose detections do not include a hand side, the hand
\* update sets that side's presence to false and leaves its x, y, vx and vy as
\* they were before the frame; the other side is updated from its own
\* detection and its own previous position only.
labelOf(s) == IF s = "left" THEN "Left" ELSE "Right"
detectionsOf(dets, s) == {i \in 1..Len(dets) : dets[i].label = labelOf(s)}

C14_AbsentSideKeepsLastPosition ==
    [][IsFrame =>
         \A s \in Sides :
            IF detectionsOf(results', s) = {}
            THEN hands'[s] = [hands[s] EXCEPT !.isPresent = FALSE]
            ELSE /\ hands'[s].isPresent
                 /\ \E i \in detectionsOf(results', s) :
                       /\ hands'[s].x = results'[i].x
                       /\ hands'[s].y = results'[i].y
                       /\ hands'[s].vx = results'[i].x - hands[s].x
                       /\ hands'[s].vy = results'[i].y - hands[s].y]_vars

C14_Witness ==
    /\ Len(results) = 1 /\ results[1].label = "Left"
    /\ hands["left"].isPresent
    /\ ~hands["right"].isPresent
    /\ hands["right"].y # 0 /\ hands["right"].vy # 0

----------------------------------------------------------------------------
\* C15: when a frame delivers more than 2 detections only the first 2, in the
\* order given by the source, are processed: the hand state after the update
\* is what the first two detections alone would give.
lastDetectionOf(dets, s) ==
    CHOOSE i \in detectionsOf(dets, s) : \A j \in detectionsOf(dets, s) : j <= i

seenHand(prev, dets, s) ==
    IF detectionsOf(dets, s) = {}
    THEN [prev[s] EXCEPT !.isPresent = FALSE]
    ELSE LET d == dets[lastDetectionOf(dets, s)]
         IN  [x |-> d.x, y |-> d.y, vx |-> d.x - prev[s].x, vy |-> d.y - prev[s].y,
              isPresent |-> TRUE]

C15_OnlyFirstTwoProcessed ==
    [][(IsFrame /\ Len(results') > 2) =>
          \A s \in Sides : hands'[s] = seenHand(hands, SubSeq(results', 1, 2), s)]_vars

\* what the loop does instead: every detection is processed, the last one of
\* a side wins
C15_EveryDetectionProcessed ==
    [][IsFrame => \A s \in Sides : hands'[s] = seenHand(hands, results', s)]_vars

C15_ThirdDetectionReached ==
    /\ Len(results) = 3
    /\ results[1].label = "Left" /\ results[2].label = "Left" /\ results[3].label = "Right"
    /\ hands["right"].isPresent /\ hands["right"].y = results[3].y

----------------------------------------------------------------------------
\* C16: every session-state transition is reported outward: the last value
\* passed to onGameStateChange (Idle before any call) always equals the
\* internal session state, and the step from Idle to Playing sets the score to
\* 0 without simulating a frame.
C16_SessionStateReported ==
    [][ /\ appGameState = gameState
        /\ appGameState' = gameState'
        /\ (gameState = "IDLE" /\ gameState' = "PLAYING") =>
               (score' = 0 /\ now' = now /\ log' = log /\ lastSpawnTime' = lastSpawnTime)
      ]_vars

C16_Witness ==
    /\ gameState = "PLAYING" /\ appGameState = "PLAYING"
    /\ score = 0
    /\ Len(balls) = 0
    /\ hands["left"].isPresent

----------------------------------------------------------------------------
\* C17: sendCoachMessage never propagates a collaborator failure: with a
\* missing credential, a failing creation of the chat session or a failing
\* sendMessage request the returned promise resolves (to a fixed fallback
\* string) and never rejects, and the call changes no game state.
C17_SendNeverRejects ==
    [][ /\ coachReply' # "REJECTED"
        /\ (coachReply' # coachReply \/ chatSession' # chatSession)
              => UNCHANGED gameVars ]_vars

\* the failures that are contained: missing credential, failing sendMessage
C17_FallbackReached ==
    /\ coachReply = FAILED_REPLY
    /\ chatSession = "chat"
    /\ gameState = "PLAYING"

----------------------------------------------------------------------------
\* C18: the session state never becomes GAME_OVER and never returns to Idle:
\* once startGame has set it to Playing it stays Playing after every later
\* frame and player action, and GAME_OVER is never reported to the App.
C18_PlayingForever ==
    [][ /\ gameState # "GAME_OVER" /\ gameState' # "GAME_OVER"
        /\ appGameState # "GAME_OVER" /\ appGameState' # "GAME_OVER"
        /\ gameState = "PLAYING" => (gameState' = "PLAYING" /\ appGameState' = "PLAYING")
      ]_vars

C18_Witness ==
    /\ gameState = "PLAYING" /\ appGameState = "PLAYING"
    /\ \E i \in 1..Len(log) : log[i].respawned /\ log[i].end.heldBy = "none"

----------------------------------------------------------------------------
\* C19: a frame processed while the session is not Playing changes only the
\* hand state: the ball registry, the score, the last-spawn timestamp and both
\* throw cooldown timestamps are unchanged by it.
C19_IdleFrameOnlyMovesHands ==
    [][(IsFrame /\ gameState # "PLAYING") =>
          /\ balls' = balls
          /\ score' = score /\ appScore' = appScore
          /\ lastSpawnTime' = lastSpawnTime
          /\ throwCooldowns' = throwCooldowns
          /\ gameState' = gameState]_vars

C19_Witness ==
    /\ gameState = "IDLE"
    /\ now > StartTime
    /\ hands["left"].isPresent /\ hands["left"].vy # 0
    /\ balls = <<>> /\ lastSpawnTime = 0

----------------------------------------------------------------------------
\* C20: a ball that a hand catches in a frame is excluded from every further
\* check of that frame: it ends the frame held by that hand, the floor check
\* at y > 1.2 neither respawns nor releases it.
C20_CaughtBallStaysHeld ==
    gameState = "PLAYING" =>
        \A i \in 1..Len(log) :
            caughtNow(log, i) =>
                /\ ~log[i].respawned
                /\ balls[i] = log[i].end
                /\ balls[i].heldBy = log[i].end.heldBy

\* what the floor check does to a ball caught below the floor line
C20_CaughtBallRespawned ==
    /\ gameState = "PLAYING"
    /\ \E i \in 1..Len(log) :
          /\ caughtNow(log, i) /\ log[i].end.heldBy = "left"
          /\ log[i].end.y > FLOOR_Y
          /\ balls[i].heldBy = "none" /\ balls[i].y = RESPAWN_Y

----------------------------------------------------------------------------
\* C21: the throw cooldown is per hand: a throw by a hand sets only that
\* hand's last-throw timestamp, so two successive throws of one hand are more
\* than 400 ms apart, while the other hand may throw in the same frame or at
\* any time within those 400 ms.
C21_CooldownPerHand ==
    [][PlayingFrame =>
         \A h \in Sides :
            IF thrownBy(log', h) # {}
            THEN /\ Cardinality(thrownBy(log', h)) = 1
                 /\ now' - throwCooldowns[h] > THROW_COOLDOWN
                 /\ throwCooldowns'[h] = now'
            ELSE throwCooldowns'[h] = throwCooldowns[h]]_vars

C21_Witness ==
    /\ gameState = "PLAYING"
    /\ thrownBy(log, "left") # {} /\ thrownBy(log, "right") # {}
    /\ throwCooldowns["left"] = now /\ throwCooldowns["right"] = now

C21_WitnessWithinCooldown ==
    /\ gameState = "PLAYING"
    /\ thrownBy(log, "right") # {} /\ thrownBy(log, "left") = {}
    /\ throwCooldowns["left"] > 0
    /\ now - throwCooldowns["left"] <= THROW_COOLDOWN

----------------------------------------------------------------------------
\* C22: a ball thrown in a frame is still free at the end of that frame: its
\* vy after the throw, 0.25 * hand.vy - 0.005 with hand.vy < -0.08, is still
\* below the catch limit -0.01 after one gravity step, so neither hand catches
\* it in the physics step of the same frame, whatever its distance to a hand.
C22_SlowestThrows ==
    {throwBall(NoBall, [x |-> 0, y |-> 0, vx |-> 0, vy |-> v, isPresent |-> TRUE], 0) :
        v \in (THROW_THRESHOLD - 8)..(THROW_THRESHOLD - 1)}

C22_ThrownBallStaysFree ==
    gameState = "PLAYING" =>
        \A i \in 1..Len(log) :
               log[i].rel = "throw" =>
                   /\ \A b \in C22_SlowestThrows : integrate(b).vy <= CATCH_VY_LIMIT
                   /\ log[i].rvy < CATCH_VY_LIMIT - GRAVITY
                   /\ log[i].free
                   /\ log[i].chk.vy = log[i].rvy + GRAVITY
                   /\ log[i].chk.vy <= CATCH_VY_LIMIT
                   /\ log[i].end.heldBy = "none"
                   /\ balls[i].heldBy = "none"

C22_Witness ==
    /\ gameState = "PLAYING"
    /\ \E i \in 1..Len(log) :
          /\ log[i].rel = "throw"
          /\ InReach(log[i].chk, log[i].from)
          /\ hands[log[i].from].isPresent
          /\ balls[i].heldBy = "none"

----------------------------------------------------------------------------
\* C23: at the end of every Playing frame every held ball is held by a hand
\* that was present in that frame: the resolver releases all balls of an
\* absent hand and only a present hand catches.
C23_HolderIsPresent ==
    gameState = "PLAYING" =>
        /\ \A i \in 1..Len(balls) :
              balls[i].heldBy # "none" => hands[balls[i].heldBy].isPresent
        /\ \A h \in Sides :
              ~hands[h].isPresent =>
                  /\ heldSet(balls, h) = {}
                  /\ \A i \in 1..Len(log) : log[i].free => log[i].end.heldBy # h

C23_Witness ==
    /\ gameState = "PLAYING"
    /\ \E i \in 1..Len(log) :
          /\ log[i].rel = "drop"
          /\ ~hands[log[i].from].isPresent
          /\ InReach(log[i].chk, log[i].from)
          /\ log[i].chk.vy > CATCH_VY_LIMIT
          /\ balls[i].heldBy = "none"
    /\ \E j \in 1..Len(balls) : balls[j].heldBy # "none"

====
